---- MODULE Spec2Model ----
(***************************************************************************)
(* A model of the LR35902 emulator's opcode handlers (src/src/cpu/cpu.rs)  *)
(* and of the terminal front end's event loop (src/src/screen/tui.rs).     *)
(*                                                                         *)
(* Two specifications share the module:                                    *)
(*   Spec     the CPU: one action per opcode handler of impl Cpu;          *)
(*   SpecTui  the front end: run_app's loop, App::on_key and the tick.     *)
(*                                                                         *)
(* Registers and Mmu are declared in cpu::registers and cpu::mmu, which    *)
(* the handlers only use.  They are modelled as the design describes them: *)
(* eight 8-bit registers, a 16-bit sp and pc, a byte-addressed memory with *)
(* little-endian words.  The handlers use Rust's += and -= on them, which  *)
(* trap on overflow in a build with overflow checks (the debug profile)    *)
(* and wrap in a build without them (the release profile): the build is    *)
(* chosen in Init and both outcomes are explored.                          *)
(***************************************************************************)
EXTENDS Integers, FiniteSets, Sequences, TLC

VARIABLES
    \* ---- the build
    overflow_checks,  \* TRUE: arithmetic overflow panics; FALSE: it wraps
    panicked,         \* the process has panicked (terminal)
    \* ---- Cpu
    r,                \* Cpu::_r, the register file (with the clock m, t)
    mem,              \* the Mmu's memory
    op,               \* the handler invoked last ("none" at power-on)
    pre,              \* _r when that handler was entered
    premem,           \* the memory when that handler was entered
    prev_op,          \* the handler invoked before it
    prev_pre,         \* _r when that one was entered
    steps,            \* handlers invoked so far
    \* ---- front end
    app,              \* the App: should_quit, scale, last_key, split_percent, ...
    held,             \* the keys the Gameboy currently holds down
    calls,            \* the calls made to the Gameboy in this loop iteration
    loc,              \* run_app's position in its loop
    key,              \* the event read in this iteration of the loop
    due,              \* last_tick.elapsed() >= tick_rate in this iteration
    right_percent,    \* ui's 100 - split_percent of the last draw
    keyboard          \* the key codes this terminal session delivers

cpu_vars == <<r, mem, op, pre, premem, prev_op, prev_pre, steps>>
tui_vars == <<app, held, calls, loc, key, due, right_percent, keyboard>>
vars == <<overflow_checks, panicked, cpu_vars, tui_vars>>

-----------------------------------------------------------------------------
(* Bounds of the model.                                                    *)

\* Handlers invoked in one run of Spec.
MaxSteps == 3
\* Cap of each coordinate of image_static_offset in SpecTui.
MaxOffset == 1

\* Values the registers and the memory image are drawn from at the start.
ASamples == {0, 15, 255}
ESamples == {0, 1}
BSamples == {0, 1, 255}
CSamples == {0, 2}
FSamples == {0, 144}
SPSamples == {0, 1, 53248, 65535}
PCSamples == {0, 65534, 65535}
ImageSamples == {0, 1}

-----------------------------------------------------------------------------
(* Fixed-width arithmetic.                                                 *)

U8 == 256
U16 == 65536

RECURSIVE BitOr(_, _)
BitOr(x, y) ==
    IF x = 0 THEN y
    ELSE IF y = 0 THEN x
    ELSE (IF x % 2 = 1 \/ y % 2 = 1 THEN 1 ELSE 0) + 2 * BitOr(x \div 2, y \div 2)

RECURSIVE BitAnd(_, _)
BitAnd(x, y) ==
    IF x = 0 \/ y = 0 THEN 0
    ELSE (IF x % 2 = 1 /\ y % 2 = 1 THEN 1 ELSE 0) + 2 * BitAnd(x \div 2, y \div 2)

\* x += n and x -= n on an unsigned integer of the given width: the wrapped
\* value, and whether a build with overflow checks panics.
add_assign(x, n, width, chk) ==
    [v |-> (x + n) % width, ovf |-> chk /\ x + n >= width]

sub_assign(x, n, width, chk) ==
    [v |-> (x - n + width) % width, ovf |-> chk /\ x < n]

-----------------------------------------------------------------------------
(* The register file and the memory.                                       *)

Registers(a, b, c, e, f, sp, pc) ==
    [a |-> a, b |-> b, c |-> c, d |-> 0, e |-> e, h |-> 0, l |-> 0, f |-> f,
     sp |-> sp, pc |-> pc, m |-> 0, t |-> 0]

\* The byte an address holds before anything is written to it.
ImageByte(image, addr) == (addr + image) % U8

Memory(image) == [image |-> image, cells |-> [x \in {} |-> 0]]

rb(mm, addr) ==
    IF addr \in DOMAIN mm.cells THEN mm.cells[addr] ELSE ImageByte(mm.image, addr)

wb(mm, addr, val) ==
    [mm EXCEPT !.cells = [x \in (DOMAIN mm.cells) \cup {addr} |->
                             IF x = addr THEN val ELSE mm.cells[x]]]

rw(mm, addr) == rb(mm, addr) + U8 * rb(mm, (addr + 1) % U16)

-----------------------------------------------------------------------------
(* The opcode handlers: from the registers and memory at entry to those at *)
(* return, or at the panic.                                                *)

Returned(r1, m1) == [r |-> r1, mem |-> m1, panicked |-> FALSE]
Panicked(r1, m1) == [r |-> r1, mem |-> m1, panicked |-> TRUE]

\* F after ADD A,E, from A after the addition.
add_flags_lowbit(a) ==
    LET f0 == 0
        f1 == IF a = 0 THEN BitOr(f0, 8) ELSE f0
        f2 == IF a > 255 THEN BitOr(f1, 16) ELSE f1
    IN  f2

add_flags(a) ==
    LET f0 == 0
        f1 == IF a = 0 THEN BitOr(f0, 128) ELSE f0
        f2 == IF a > 255 THEN BitOr(f1, 16) ELSE f1
    IN  f2

add_register_e(r0, m0, chk) ==
    LET s == add_assign(r0.a, r0.e, U8, chk)
    IN  IF s.ovf THEN Panicked(r0, m0)
        ELSE LET r1 == [r0 EXCEPT !.a = s.v]
                 r2 == [r1 EXCEPT !.f = add_flags(r1.a)]
                 r3 == [r2 EXCEPT !.a = BitAnd(r2.a, 255)]
             IN  Returned([r3 EXCEPT !.m = 1, !.t = 4], m0)

\* F after CP A,B, from F at entry and the difference i.
compare_flags(f, i) ==
    LET f1 == BitOr(f, 64)
        f2 == IF i = 0 THEN BitOr(f1, 128) ELSE f1
        f3 == IF i < 0 THEN BitOr(f2, 16) ELSE f2
    IN  f3

compare_register_b(r0, m0, chk) ==
    LET s == sub_assign(r0.a, r0.b, U8, chk)
    IN  IF s.ovf THEN Panicked(r0, m0)
        ELSE LET r1 == [r0 EXCEPT !.f = compare_flags(r0.f, s.v)]
             IN  Returned([r1 EXCEPT !.m = 1, !.t = 4], m0)

no_operation(r0, m0, chk) == Returned([r0 EXCEPT !.m = 1, !.t = 4], m0)

push_registers_b_c(r0, m0, chk) ==
    LET s1 == sub_assign(r0.sp, 1, U16, chk)
    IN  IF s1.ovf THEN Panicked(r0, m0)
        ELSE LET r1 == [r0 EXCEPT !.sp = s1.v]
                 m1 == wb(m0, r1.sp, r1.b)
                 s2 == sub_assign(r1.sp, 1, U16, chk)
             IN  IF s2.ovf THEN Panicked(r1, m1)
                 ELSE LET r2 == [r1 EXCEPT !.sp = s2.v]
                          m2 == wb(m1, r2.sp, r2.c)
                      IN  Returned([r2 EXCEPT !.m = 3, !.t = 12], m2)

pop_registers_h_l(r0, m0, chk) ==
    LET r1 == [r0 EXCEPT !.l = rb(m0, r0.sp)]
        s1 == add_assign(r1.sp, 1, U16, chk)
    IN  IF s1.ovf THEN Panicked(r1, m0)
        ELSE LET r2 == [r1 EXCEPT !.sp = s1.v]
                 r3 == [r2 EXCEPT !.h = rb(m0, r2.sp)]
                 s2 == add_assign(r3.sp, 1, U16, chk)
             IN  IF s2.ovf THEN Panicked(r3, m0)
                 ELSE Returned([r3 EXCEPT !.sp = s2.v, !.m = 3, !.t = 12], m0)

ldamm(r0, m0, chk) ==
    LET addr == rw(m0, r0.pc)
        s == add_assign(r0.pc, 2, U16, chk)
    IN  IF s.ovf THEN Panicked(r0, m0)
        ELSE LET r1 == [r0 EXCEPT !.pc = s.v]
                 r2 == [r1 EXCEPT !.a = rb(m0, addr)]
             IN  Returned([r2 EXCEPT !.m = 4, !.t = 16], m0)

-----------------------------------------------------------------------------
(* The front end: App, the keypad of the Gameboy it drives, and run_app.   *)
(* The picker and the images (the 'i' key, on_tick) are not part of the    *)
(* modelled state.                                                         *)

MAX_SCALE == 4

None == "None"

\* Key codes of the terminal's key events.
Char(c) == [code |-> "Char", c |-> c]
Arrow(d) == [code |-> d, c |-> ""]
NoKey == [code |-> "None", c |-> ""]
NotAPress == [code |-> "Ignored", c |-> ""]

KeypadKey == {"Up", "Down", "Left", "Right", "A", "B", "Select", "Start"}

\* Gameboy::keydown, Gameboy::keyup: the keypad holds the key, or lets go.
keydown(gb, k) == gb \cup {k}
keyup(gb, k) == gb \ {k}

AppNew ==
    [should_quit |-> FALSE, scale |-> 1, last_key |-> None, split_percent |-> 40,
     image_static_offset |-> <<0, 0>>]

\* The arms of on_key that change the layout.
on_key_o(sc) == IF sc >= MAX_SCALE THEN 1 ELSE sc + 1

on_key_H(sp) == IF sp >= 10 THEN sp - 10 ELSE sp

on_key_L_off_by_ten(sp) == IF sp <= 100 THEN sp + 10 ELSE sp

on_key_L(sp) == IF sp <= 90 THEN sp + 10 ELSE sp

\* A keypad arm: keydown, and remember the key for the next tick.
press(a, gb, cs, k) ==
    [app |-> [a EXCEPT !.last_key = k], gb |-> keydown(gb, k),
     calls |-> Append(cs, <<"keydown", k>>)]

on_key(a, gb, cs, c) ==
    LET same(a1) == [app |-> a1, gb |-> gb, calls |-> cs]
        x == a.image_static_offset[1]
        y == a.image_static_offset[2]
    IN  CASE c = "q" -> same([a EXCEPT !.should_quit = TRUE])
          [] c = "i" -> same(a)
          [] c = "o" -> same([a EXCEPT !.scale = on_key_o(a.scale)])
          [] c = "H" -> same([a EXCEPT !.split_percent = on_key_H(a.split_percent)])
          [] c = "L" -> same([a EXCEPT !.split_percent = on_key_L(a.split_percent)])
          [] c = "h" -> same([a EXCEPT !.image_static_offset =
                                           <<IF x > 0 THEN x - 1 ELSE x, y>>])
          [] c = "j" -> same([a EXCEPT !.image_static_offset = <<x, y + 1>>])
          [] c = "k" -> same([a EXCEPT !.image_static_offset =
                                           <<x, IF y > 0 THEN y - 1 ELSE y>>])
          [] c = "l" -> same([a EXCEPT !.image_static_offset = <<x + 1, y>>])
          [] c \in {"a", "A"} -> press(a, gb, cs, "A")
          [] c \in {"b", "B"} -> press(a, gb, cs, "B")
          [] c \in {"z", "Z"} -> press(a, gb, cs, "Select")
          [] c \in {"x", "X"} -> press(a, gb, cs, "Start")
          [] OTHER -> same(a)

\* run_app's dispatch of a key press.
key_press(a, gb, cs, k) ==
    IF k.code = "Char" THEN on_key(a, gb, cs, k.c)
    ELSE IF k.code \in {"Up", "Down", "Left", "Right"} THEN press(a, gb, cs, k.code)
    ELSE [app |-> a, gb |-> gb, calls |-> cs]

\* The tick: on_tick, frame, and keyup of the remembered key.
tick(a, gb, cs) ==
    LET cs1 == Append(cs, <<"frame">>)
    IN  IF a.last_key # None
        THEN [app |-> [a EXCEPT !.last_key = None], gb |-> keyup(gb, a.last_key),
              calls |-> Append(cs1, <<"keyup", a.last_key>>)]
        ELSE [app |-> a, gb |-> gb, calls |-> cs1]

\* ui's constraint for the right pane.
ui_right(sp, chk) == sub_assign(100, sp, U16, chk)

\* The sessions: the keys of the keypad, and the keys of the layout with two
\* keys of the keypad among them.
PadKeyboard ==
    {Arrow(d) : d \in {"Up", "Down", "Left", "Right"}}
    \cup {Char(c) : c \in {"a", "A", "b", "B", "s", "S", "z", "Z", "x", "X", "q"}}

LayoutKeyboard ==
    {Arrow("Up")}
    \cup {Char(c) : c \in {"q", "i", "o", "H", "L", "h", "j", "k", "l", "a", "w"}}

TuiStart ==
    /\ app = AppNew
    /\ held = {}
    /\ calls = <<>>
    /\ loc = "draw"
    /\ key = NoKey
    /\ due = FALSE
    /\ right_percent = 0

-----------------------------------------------------------------------------
(* Spec: the CPU.                                                          *)

Init ==
    /\ overflow_checks \in BOOLEAN
    /\ panicked = FALSE
    /\ \E a \in ASamples, b \in BSamples, c \in CSamples, e \in ESamples,
          f \in FSamples, sp \in SPSamples, pc \in PCSamples :
          r = Registers(a, b, c, e, f, sp, pc)
    /\ \E image \in ImageSamples : mem = Memory(image)
    /\ op = "none"
    /\ pre = r
    /\ premem = mem
    /\ prev_op = "none"
    /\ prev_pre = r
    /\ steps = 0
    /\ TuiStart
    /\ keyboard = {}

\* Invoke one handler: its name and what it leaves.
Exec(name, res) ==
    /\ ~panicked
    /\ steps < MaxSteps
    /\ r' = res.r
    /\ mem' = res.mem
    /\ panicked' = res.panicked
    /\ op' = name
    /\ pre' = r
    /\ premem' = mem
    /\ prev_op' = op
    /\ prev_pre' = pre
    /\ steps' = steps + 1
    /\ UNCHANGED <<overflow_checks, tui_vars>>

NOP == Exec("NOP", no_operation(r, mem, overflow_checks))
ADD_A_E == Exec("ADD", add_register_e(r, mem, overflow_checks))
CP_A_B == Exec("CP", compare_register_b(r, mem, overflow_checks))
PUSH_BC == Exec("PUSH", push_registers_b_c(r, mem, overflow_checks))
POP_HL == Exec("POP", pop_registers_h_l(r, mem, overflow_checks))
LD_A_nn == Exec("LD", ldamm(r, mem, overflow_checks))

Next ==
    \/ NOP
    \/ ADD_A_E
    \/ CP_A_B
    \/ PUSH_BC
    \/ POP_HL
    \/ LD_A_nn

Spec == Init /\ [][Next]_vars

-----------------------------------------------------------------------------
(* SpecTui: the front end's loop.                                          *)

PowerOn == Registers(0, 0, 0, 0, 0, 0, 0)

InitTui ==
    /\ overflow_checks \in BOOLEAN
    /\ panicked = FALSE
    /\ r = PowerOn
    /\ mem = Memory(0)
    /\ op = "none"
    /\ pre = r
    /\ premem = mem
    /\ prev_op = "none"
    /\ prev_pre = r
    /\ steps = 0
    /\ TuiStart
    /\ keyboard \in {PadKeyboard, LayoutKeyboard}

\* terminal.draw(|f| ui(f, &mut app))
Draw ==
    /\ ~panicked
    /\ loc = "draw"
    /\ LET s == ui_right(app.split_percent, overflow_checks)
       IN  IF s.ovf
           THEN /\ panicked' = TRUE
                /\ UNCHANGED <<loc, right_percent>>
           ELSE /\ panicked' = FALSE
                /\ right_percent' = s.v
                /\ loc' = "poll"
    /\ key' = NoKey
    /\ due' = FALSE
    /\ calls' = <<>>
    /\ UNCHANGED <<overflow_checks, cpu_vars, app, held, keyboard>>

\* poll returns true with a key press.
PollKey ==
    /\ ~panicked
    /\ loc = "poll"
    /\ \E k \in keyboard :
          /\ k = Char("j") => app.image_static_offset[2] < MaxOffset
          /\ k = Char("l") => app.image_static_offset[1] < MaxOffset
          /\ LET res == key_press(app, held, calls, k)
             IN  /\ app' = res.app
                 /\ held' = res.gb
                 /\ calls' = res.calls
          /\ key' = k
    /\ due' \in BOOLEAN
    /\ loc' = "tick"
    /\ UNCHANGED <<overflow_checks, panicked, cpu_vars, right_percent, keyboard>>

\* poll returns true with an event that is no key press.
PollIgnored ==
    /\ ~panicked
    /\ loc = "poll"
    /\ key' = NotAPress
    /\ due' \in BOOLEAN
    /\ loc' = "tick"
    /\ UNCHANGED <<overflow_checks, panicked, cpu_vars, app, held, calls,
                   right_percent, keyboard>>

\* poll returns false: the tick rate has elapsed.
PollTimeout ==
    /\ ~panicked
    /\ loc = "poll"
    /\ due' = TRUE
    /\ loc' = "tick"
    /\ UNCHANGED <<overflow_checks, panicked, cpu_vars, app, held, calls, key,
                   right_percent, keyboard>>

Tick ==
    /\ ~panicked
    /\ loc = "tick"
    /\ due
    /\ LET res == tick(app, held, calls)
       IN  /\ app' = res.app
           /\ held' = res.gb
           /\ calls' = res.calls
    /\ loc' = "quit"
    /\ UNCHANGED <<overflow_checks, panicked, cpu_vars, key, due, right_percent,
                   keyboard>>

NoTick ==
    /\ ~panicked
    /\ loc = "tick"
    /\ ~due
    /\ loc' = "quit"
    /\ UNCHANGED <<overflow_checks, panicked, cpu_vars, app, held, calls, key, due,
                   right_percent, keyboard>>

QuitCheck ==
    /\ ~panicked
    /\ loc = "quit"
    /\ loc' = IF app.should_quit THEN "done" ELSE "draw"
    /\ UNCHANGED <<overflow_checks, panicked, cpu_vars, app, held, calls, key, due,
                   right_percent, keyboard>>

NextTui ==
    \/ Draw
    \/ PollKey
    \/ PollIgnored
    \/ PollTimeout
    \/ Tick
    \/ NoTick
    \/ QuitCheck

SpecTui == InitTui /\ [][NextTui]_vars

-----------------------------------------------------------------------------
(* The claims.                                                             *)

HasFlag(f, mask) == BitAnd(f, mask) # 0

\* C1: whenever ADD A,E has returned, A = (x + y) mod 256 for the x, y it found
\* in A and E, Carry (0x10) is set iff x + y > 255, Half-Carry (0x20) iff
\* (x mod 16) + (y mod 16) > 15, Zero (0x80) iff the result is 0, and Subtract
\* (0x40) is clear.
Claim_C1 ==
    (op = "ADD" /\ ~panicked) =>
        /\ r.a = (pre.a + pre.e) % 256
        /\ HasFlag(r.f, 16) <=> (pre.a + pre.e > 255)
        /\ HasFlag(r.f, 32) <=> ((pre.a % 16) + (pre.e % 16) > 15)
        /\ HasFlag(r.f, 128) <=> (r.a = 0)
        /\ ~HasFlag(r.f, 64)

\* C2: PUSH BC can be executed from every SP, and when POP HL follows it
\* immediately, H = B, L = C and SP is what it was before the push.
Claim_C2 ==
    /\ op = "PUSH" => ~panicked
    /\ (op = "POP" /\ prev_op = "PUSH") =>
          /\ ~panicked
          /\ r.h = prev_pre.b
          /\ r.l = prev_pre.c
          /\ r.sp = prev_pre.sp

\* C3: whenever CP A,B has returned, F is exactly: Subtract (0x40) set, Carry
\* (0x10) iff B > A, Half-Carry (0x20) iff (A mod 16) < (B mod 16), Zero (0x80)
\* iff A = B, whatever F was before; A and B are unchanged.
Claim_C3 ==
    (op = "CP" /\ ~panicked) =>
        /\ r.f = 64 + (IF pre.b > pre.a THEN 16 ELSE 0)
                    + (IF (pre.a % 16) < (pre.b % 16) THEN 32 ELSE 0)
                    + (IF pre.a = pre.b THEN 128 ELSE 0)
        /\ r.a = pre.a
        /\ r.b = pre.b

\* C4: in every reachable state the low nibble of F is zero.
Inv_C4 == BitAnd(r.f, 15) = 0

\* ADD A,E has returned and rewritten an F that had flags set.
Witness_C4 == op = "ADD" /\ ~panicked /\ pre.f = 144 /\ r.f = 128

\* C5: no handler faults; each wraps instead: ADD A,E wraps A modulo 256, CP A,B
\* completes when B > A, PUSH BC from SP = 0 ends at SP = 0xFFFE with B at 0xFFFF
\* and C at 0xFFFE, POP HL and LD A,(nn) wrap SP and PC modulo 65536.
Claim_C5 ==
    /\ ~panicked
    /\ op = "ADD" => r.a = (pre.a + pre.e) % 256
    /\ (op = "PUSH" /\ pre.sp = 0) =>
          r.sp = 65534 /\ rb(mem, 65535) = pre.b /\ rb(mem, 65534) = pre.c
    /\ op = "PUSH" => r.sp = (pre.sp + 65534) % 65536
    /\ op = "POP" => r.sp = (pre.sp + 2) % 65536
    /\ op = "LD" => r.pc = (pre.pc + 2) % 65536

\* C6: the handler invoked last has recorded its cycle cost, whatever its
\* operands: m = 1, t = 4 for NOP, ADD A,E and CP A,B; m = 3, t = 12 for PUSH BC
\* and POP HL; m = 4, t = 16 for LD A,(nn); so t = 4 * m and 4 <= t <= 24.
Claim_C6 ==
    /\ op \in {"NOP", "ADD", "CP"} => (r.m = 1 /\ r.t = 4)
    /\ op \in {"PUSH", "POP"} => (r.m = 3 /\ r.t = 12)
    /\ op = "LD" => (r.m = 4 /\ r.t = 16)
    /\ op # "none" => (r.t = 4 * r.m /\ 4 <= r.t /\ r.t <= 24)

\* C7: a press of a key the Controls help lists sends the keydown the help
\* names for it: the arrows their direction, a/A A, s/S B, z/Z Select, x/X Start.
Claim_C7 ==
    loc = "tick" =>
        /\ \A d \in {"Up", "Down", "Left", "Right"} :
              key = Arrow(d) => calls = << <<"keydown", d>> >>
        /\ key \in {Char("a"), Char("A")} => calls = << <<"keydown", "A">> >>
        /\ key \in {Char("s"), Char("S")} => calls = << <<"keydown", "B">> >>
        /\ key \in {Char("z"), Char("Z")} => calls = << <<"keydown", "Select">> >>
        /\ key \in {Char("x"), Char("X")} => calls = << <<"keydown", "Start">> >>

\* C8: LD A,(nn) returns from every PC, with A the byte at the little-endian
\* word found at PC, PC advanced by 2 modulo 65536, and F, SP, B, C, D, E, H, L
\* and the memory as they were.
Claim_C8 ==
    op = "LD" =>
        /\ ~panicked
        /\ r.pc = (pre.pc + 2) % 65536
        /\ r.a = rb(premem, rb(premem, pre.pc)
                            + 256 * rb(premem, (pre.pc + 1) % 65536))
        /\ \A x \in {"f", "sp", "b", "c", "d", "e", "h", "l"} : r[x] = pre[x]
        /\ mem = premem

\* C9: when a tick has run, every key that was sent down has been sent up: the
\* Gameboy holds no key.
Claim_C9 == (loc = "quit" /\ due) => held = {}

\* The layout is in range, and the last draw computed its right share from it.
LayoutInRange ==
    /\ ~panicked
    /\ app.split_percent >= 0 /\ app.split_percent <= 100
    /\ loc = "poll" => right_percent = 100 - app.split_percent
    /\ app.scale >= 1 /\ app.scale <= MAX_SCALE

\* A press of 'o' moves scale one step along 1, 2, 3, 4, 1.
ScaleCycles ==
    (loc = "poll" /\ loc' = "tick" /\ key' = Char("o")) =>
        app'.scale = (IF app.scale = 4 THEN 1 ELSE app.scale + 1)

\* C10: from split_percent = 40 and scale = 1, after any key presses,
\* 0 <= split_percent <= 100, so that ui's 100 - split_percent does not
\* underflow, 1 <= scale <= MAX_SCALE, and successive presses of 'o' cycle scale
\* through 1, 2, 3, 4, 1.
Thm_C10 == []LayoutInRange /\ [][ScaleCycles]_vars

\* 'L' has been pressed and the split is at its upper end, the scale at its.
Witness_C10 ==
    loc = "tick" /\ key = Char("L") /\ app.split_percent = 100 /\ app.scale = MAX_SCALE

====
